---- MODULE Spec2Model ----
(***************************************************************************)
(* Model of the OutSystems module republisher:                             *)
(*   - the publisher  (outsystems-module-republisher.js, src/unnamed/      *)
(*     part_001): one shared task queue, SUBDOMAINS x TABS_PER_SUBDOMAIN   *)
(*     tabs that pull from it, bounded retries per item;                   *)
(*   - the scanner    (src/src/outsystems-warning-scanner.js): paginated   *)
(*     scrape, de-duplication, sort, filter, save;                         *)
(*   - the snapshot file sorted-modules.json that links the two.           *)
(*   - the top-level code of both scripts: environment validation, help,   *)
(*     parseRequestedLayers;                                               *)
(*   - run-scheduled.js, which runs the two as child processes.            *)
(*                                                                         *)
(* Node runs one JavaScript thread: the code between two awaits is one     *)
(* atomic step, and the continuations of settled promises (microtasks) run *)
(* before any further I/O completes.  Every action below is therefore      *)
(* "an awaited operation settles, and the code runs on to the next await". *)
(*                                                                         *)
(* Failure model: a browser launch, a navigation and a wait may reject     *)
(* (time out); calls on an open page of a running browser (newPage,        *)
(* close, $, $$) succeed.                                                  *)
(***************************************************************************)
EXTENDS Integers, Sequences, FiniteSets, TLC

----------------------------------------------------------------------------
(* Bounds of the model *)

\* longest snapshot the publisher is given
MaxModules == 2
\* most rows the scanned module list holds, over all its pages
MaxRows == 3
\* number of entries of SUBDOMAINS that are modelled (the source lists five)
NumSubdomains == 2
\* cycles the scheduler starts: the one at startup and the cron ticks after it
MaxCycles == 3
\* most comma-separated tokens of the layers argument
MaxTokens == 2
\* longest snapshot file a command line is tried on
MaxSnapshot == 3

(* Program constants *)

RETRY_LIMIT == 3
TABS_PER_SUBDOMAIN == 2
PROCESSING_HIERARCHY ==
    <<"IS", "LS", "TH", "CS", "BL", "SBL", "OS", "API", "AP", "CW", "UI">>

\* SUBDOMAINS: the groups, one browser each
Subdomains == 1..NumSubdomains
\* one worker (tab) is <<subdomain, tab number>>
Workers == Subdomains \X (1..TABS_PER_SUBDOMAIN)

\* requestedLayers = null is written as the empty list: parseRequestedLayers
\* returns null or a non-empty array, never an empty one
NullLayers == <<>>

\* the directories a command can be started from; the scripts live in "src"
Dirs == {"root", "src"}
\* path.resolve(__dirname, OUTPUT_FILE) of the publisher
ScriptDir == "src"

\* a file of the file system: absent, not JSON, or a JSON array of records
MissingFile == [kind |-> "missing", data |-> <<>>]
CorruptFile == [kind |-> "corrupt", data |-> <<>>]
JsonFile(s) == [kind |-> "json", data |-> s]

Range(s) == {s[i] : i \in 1..Len(s)}

VARIABLES
    \* --- the file system and the command line
    fs,              \* Dirs -> file : sorted-modules.json in each directory
    fs0,             \* history: the file system before the commands ran
    cwd,             \* process.cwd() of the commands
    reads,           \* history: readFileSync calls of a publish run
    pubLayers,       \* requestedLayers of the publisher
    scanLayers,      \* requestedLayers of the scanner
    \* --- publisher
    taskQueue,       \* const taskQueue = []
    taskIndex,       \* let taskIndex = 0
    mainPc,          \* processURLs(): "start", "awaitAll", "complete"
    loadError,       \* why processURLs returned before starting a thread
    thread,          \* processThread per subdomain
    browser,         \* the browser of each subdomain
    groupError,      \* the step at which processThread of a subdomain failed
    tab,             \* processTab per worker: pc, task, retries
    claimLog,        \* history: the successful getNextTask calls, in order
    aborted,         \* history: the workers whose loop an error ended
    \* --- scanner
    listing,         \* the rows of the filtered module list, over all pages
    pageSize,        \* rows the list shows per page
    shown,           \* the page the DOM shows
    pending,         \* clicks on Next whose AJAX refresh has not arrived
    scanPc,          \* scanModules / scrapeModulesWithWarnings
    previousFirstRowText,
    modulesMap,      \* const modules = new Map(), in insertion order
    scanned,         \* let modules = [] of scanModules
    lastWritten,     \* history: what saveToFile wrote in this pass
    processed,       \* history: the pages whose rows the while loop handled
    \* --- the two retry loops, called on their own
    navScript,       \* outcome of the k-th page.goto of navigateWithRetries
    pubScript,       \* outcome of the k-th attempt of processPublishPage
    nav,             \* navigateWithRetries: pc, retries, attempts, result
    pub,             \* processPublishPage: pc, retries, attempts, result
    \* --- the start of a command (the top-level code of either script)
    cli,             \* command, process.env, process.argv, pc, exit code
    \* --- run-scheduled.js
    cycles,          \* the scanner and publisher child process of each cycle
    \* --- one tab working through the queue, step by step
    item             \* processTab / processPublishPage for the task claimed

envVars == <<fs, fs0, cwd, reads>>
pubVars == <<pubLayers, taskQueue, taskIndex, mainPc, loadError, thread,
             browser, groupError, tab, claimLog, aborted>>
scanVars == <<scanLayers, listing, pageSize, shown, pending, scanPc,
              previousFirstRowText, modulesMap, scanned, lastWritten, processed>>
retryVars == <<navScript, pubScript, nav, pub>>
cliVars == <<cli>>
schedVars == <<cycles>>
itemVars == <<item>>
vars == <<envVars, pubVars, scanVars, retryVars, cliVars, schedVars, itemVars>>

\* what no step of the publisher touches
PubFrame ==
    UNCHANGED <<envVars, scanVars, retryVars, cliVars, schedVars, itemVars,
                pubLayers>>

----------------------------------------------------------------------------
(* filterModulesByRequestedLayers *)

filterModulesFirstLayerOnly(modules, requestedLayers) ==
    IF requestedLayers = NullLayers
    THEN modules
    ELSE LET includes(m) == m.suffix = requestedLayers[1]
         IN  SelectSeq(modules, includes)

filterModulesByRequestedLayers(modules, requestedLayers) ==
    IF requestedLayers = NullLayers
    THEN modules
    ELSE LET includes(m) == m.suffix \in Range(requestedLayers)
         IN  SelectSeq(modules, includes)

----------------------------------------------------------------------------
(* The publisher *)

NoTask == ""
IdleTab == [pc |-> "idle", task |-> NoTask, retries |-> 0]

\* getNextTask: the task handed out (NoTask for null) and the new taskIndex
getNextTaskNoAdvance ==
    IF taskIndex < Len(taskQueue)
    THEN [task |-> taskQueue[taskIndex + 1], index |-> taskIndex]
    ELSE [task |-> NoTask, index |-> taskIndex]

getNextTaskSkipLast ==
    IF taskIndex < Len(taskQueue) - 1
    THEN [task |-> taskQueue[taskIndex + 1], index |-> taskIndex + 1]
    ELSE [task |-> NoTask, index |-> taskIndex]

getNextTaskFromEnd ==
    IF taskIndex < Len(taskQueue)
    THEN [task |-> taskQueue[Len(taskQueue) - taskIndex], index |-> taskIndex + 1]
    ELSE [task |-> NoTask, index |-> taskIndex]

getNextTaskSkipsOne ==
    IF taskIndex < Len(taskQueue)
    THEN [task |-> taskQueue[taskIndex + 1], index |-> taskIndex + 2]
    ELSE [task |-> NoTask, index |-> taskIndex]

getNextTask ==
    IF taskIndex < Len(taskQueue)
    THEN [task |-> taskQueue[taskIndex + 1], index |-> taskIndex + 1]
    ELSE [task |-> NoTask, index |-> taskIndex]

\* Promise.all(tabPromises) of processThread: when the last tab of subdomain g
\* has left processTab, processThread runs on to its finally block
ThreadAfterTabs(th, tb, g) ==
    IF \A v \in Workers : v[1] = g => tb[v].pc = "done"
    THEN [th EXCEPT ![g] = "finally"]
    ELSE th

\* processTab leaves its while loop: finally { await page.close() }
LeaveLoop(w) ==
    /\ tab' = [tab EXCEPT ![w] = [pc |-> "done", task |-> NoTask, retries |-> 0]]
    /\ thread' = ThreadAfterTabs(thread, tab', w[1])

\* processTab, top of the while loop: claim a task and start its first
\* navigation, or leave the loop
LoopTop(w) ==
    LET next == getNextTask
    IN  /\ taskIndex' = next.index
        /\ IF next.task # NoTask
           THEN /\ tab' = [tab EXCEPT ![w] = [pc |-> "goto", task |-> next.task,
                                              retries |-> 0]]
                /\ claimLog' = Append(claimLog,
                                      [sub |-> w[1], tab |-> w[2], url |-> next.task])
                /\ UNCHANGED thread
           ELSE /\ LeaveLoop(w)
                /\ UNCHANGED claimLog

\* processURLs, the three ways it starts
StartsThreadsAlways(kind) == TRUE

StartsThreads(kind) == kind = "json"

ProcessURLs ==
    /\ mainPc = "start"
    /\ LET file == fs[ScriptDir]
           filteredModules == filterModulesByRequestedLayers(file.data, pubLayers)
       IN  /\ loadError' = CASE file.kind = "missing" -> "missing"
                             [] file.kind = "corrupt" -> "parse"
                             [] OTHER -> "none"
           /\ IF StartsThreads(file.kind)
              THEN /\ taskQueue' = taskQueue \o
                          [i \in 1..Len(filteredModules) |-> filteredModules[i].url]
                   /\ thread' = [g \in Subdomains |-> "launch"]
                   /\ mainPc' = "awaitAll"
              ELSE /\ mainPc' = "complete"
                   /\ UNCHANGED <<taskQueue, thread>>
           \* fs.existsSync, then fs.readFileSync
           /\ reads' = IF file.kind = "missing" THEN reads ELSE reads + 1
    /\ UNCHANGED <<fs, fs0, cwd, scanVars, retryVars, cliVars, schedVars,
                   itemVars, pubLayers>>
    /\ UNCHANGED <<taskIndex, browser, groupError, tab, claimLog, aborted>>

\* processThread: a step inside the try block is caught and runs on to the
\* finally block; puppeteer.launch and the first newPage are outside it
ThreadCatchNothing(step) == "rejected"

ThreadCatch(step) ==
    IF step \in {"login", "tabs"} THEN "finally" ELSE "rejected"

\* Promise.all of processURLs: rejects with the first rejected thread (the
\* catch of processURLs and the .then callback follow at once), resolves when
\* every thread has resolved
MainAfter(th) ==
    IF mainPc = "awaitAll" /\
       (\/ \E g \in Subdomains : th[g] = "rejected"
        \/ \A g \in Subdomains : th[g] = "closed")
    THEN "complete"
    ELSE mainPc

Launch(g) ==
    /\ thread[g] = "launch"
    /\ thread' = [thread EXCEPT ![g] = "login"]
    /\ browser' = [browser EXCEPT ![g] = "open"]
    /\ PubFrame /\ UNCHANGED aborted
    /\ UNCHANGED <<taskQueue, taskIndex, mainPc, loadError,
                   groupError, tab, claimLog>>

ThreadFail(g, step) ==
    /\ thread[g] = step
    /\ thread' = [thread EXCEPT ![g] = ThreadCatch(step)]
    /\ groupError' = [groupError EXCEPT ![g] = step]
    /\ mainPc' = MainAfter(thread')
    /\ PubFrame /\ UNCHANGED aborted
    /\ UNCHANGED <<taskQueue, taskIndex, loadError, browser,
                   tab, claimLog>>

LaunchFail(g) == ThreadFail(g, "launch")

LoginFail(g) == ThreadFail(g, "login")

\* login succeeded: the login page is closed and every tab is started
Login(g) ==
    /\ thread[g] = "login"
    /\ thread' = [thread EXCEPT ![g] = "tabs"]
    /\ tab' = [w \in Workers |->
                 IF w[1] = g THEN [IdleTab EXCEPT !.pc = "newPage"] ELSE tab[w]]
    /\ PubFrame /\ UNCHANGED aborted
    /\ UNCHANGED <<taskQueue, taskIndex, mainPc, loadError,
                   browser, groupError, claimLog>>

\* browser.newPage() of processTab settles: first claim
NewPage(w) ==
    /\ tab[w].pc = "newPage"
    /\ LoopTop(w)
    /\ PubFrame /\ UNCHANGED aborted
    /\ UNCHANGED <<taskQueue, mainPc, loadError, browser,
                   groupError>>

\* page.goto of processTab (line 267) settles
Goto(w) ==
    /\ tab[w].pc = "goto"
    /\ tab' = [tab EXCEPT ![w].pc = "check"]
    /\ PubFrame /\ UNCHANGED aborted
    /\ UNCHANGED <<taskQueue, taskIndex, mainPc, loadError,
                   thread, browser, groupError, claimLog>>

\* page.goto of processTab rejects: the catch is outside the while loop, so
\* the worker logs the error and leaves the loop
GotoFail(w) ==
    /\ tab[w].pc = "goto"
    /\ LeaveLoop(w)
    /\ aborted' = aborted \cup {w}
    /\ PubFrame
    /\ UNCHANGED <<taskQueue, taskIndex, mainPc, loadError,
                   browser, groupError, claimLog>>

\* isModuleInWarning settles: true, or false (no label, no icon within
\* WARNING_CHECK_TIMEOUT, or any error)
CheckWarning(w) ==
    /\ tab[w].pc = "check"
    /\ tab' = [tab EXCEPT ![w].pc = "publish"]
    /\ PubFrame /\ UNCHANGED aborted
    /\ UNCHANGED <<taskQueue, taskIndex, mainPc, loadError,
                   thread, browser, groupError, claimLog>>

CheckNoWarning(w) ==
    /\ tab[w].pc = "check"
    /\ LoopTop(w)
    /\ PubFrame /\ UNCHANGED aborted
    /\ UNCHANGED <<taskQueue, mainPc, loadError, browser,
                   groupError>>

\* the retry bookkeeping shared by navigateWithRetries and processPublishPage:
\*   catch { retries++; ... if (retries === RETRY_LIMIT) return ...; }
RetryNoCount(retries) ==
    [retries |-> retries, giveUp |-> retries = RETRY_LIMIT]

RetryAfterError(retries) ==
    [retries |-> retries + 1, giveUp |-> retries + 1 = RETRY_LIMIT]

\*   while (retries < RETRY_LIMIT)
LoopTest(retries) == retries < RETRY_LIMIT

\* one attempt of processPublishPage ends without an error: the publish was
\* started, or no published row or Publish button was found
PublishReturn(w) ==
    /\ tab[w].pc = "publish"
    /\ LoopTop(w)
    /\ PubFrame /\ UNCHANGED aborted
    /\ UNCHANGED <<taskQueue, mainPc, loadError, browser,
                   groupError>>

\* one attempt of processPublishPage throws
PublishError(w) ==
    /\ tab[w].pc = "publish"
    /\ LET r == RetryAfterError(tab[w].retries)
       IN  IF ~r.giveUp /\ LoopTest(r.retries)
           THEN /\ tab' = [tab EXCEPT ![w].retries = r.retries]
                /\ UNCHANGED <<taskIndex, claimLog, thread>>
           ELSE LoopTop(w)
    /\ PubFrame /\ UNCHANGED aborted
    /\ UNCHANGED <<taskQueue, mainPc, loadError, browser, groupError>>

\* browser.close() in the finally block of processThread settles
CloseBrowser(g) ==
    /\ thread[g] = "finally"
    /\ thread' = [thread EXCEPT ![g] = "closed"]
    /\ browser' = [browser EXCEPT ![g] = "closed"]
    /\ mainPc' = MainAfter(thread')
    /\ PubFrame /\ UNCHANGED aborted
    /\ UNCHANGED <<taskQueue, taskIndex, loadError,
                   groupError, tab, claimLog>>

----------------------------------------------------------------------------
(* navigateWithRetries and processPublishPage, each called once on its own, *)
(* the outcome of every attempt fixed in advance by a script                *)

Scripts == [1..(RETRY_LIMIT + 1) -> BOOLEAN]

\* the outcome of attempt k; a run that outlives its script keeps failing
Outcome(script, k) == IF k \in DOMAIN script THEN script[k] ELSE FALSE

RetryStart == [pc |-> "loop", retries |-> 0, attempts |-> 0, result |-> "none"]

\* one pass through the body of the while loop: the attempt, and on an error
\* the catch block and the loop test.  onSuccess and onGiveUp are what the
\* function returns; a loop that ends by its test returns undefined
RetryPass(st, script, onSuccess, onGiveUp) ==
    LET k == st.attempts + 1
        r == RetryAfterError(st.retries)
    IN  IF Outcome(script, k)
        THEN [pc |-> "returned", retries |-> st.retries, attempts |-> k,
              result |-> onSuccess]
        ELSE IF r.giveUp
        THEN [pc |-> "returned", retries |-> r.retries, attempts |-> k,
              result |-> onGiveUp]
        ELSE IF LoopTest(r.retries)
        THEN [pc |-> "loop", retries |-> r.retries, attempts |-> k,
              result |-> "none"]
        ELSE [pc |-> "returned", retries |-> r.retries, attempts |-> k,
              result |-> "undefined"]

\* navigateWithRetries: return true / return false
NavAttempt ==
    /\ nav.pc = "loop"
    /\ nav' = RetryPass(nav, navScript, "true", "false")
    /\ UNCHANGED <<envVars, pubVars, scanVars, cliVars, schedVars, itemVars,
                   navScript, pubScript, pub>>

\* processPublishPage: return after the publish was started or nothing was
\* found to publish / "Max retries reached ... Skipping." and return
PubAttempt ==
    /\ pub.pc = "loop"
    /\ pub' = RetryPass(pub, pubScript, "done", "skipped")
    /\ UNCHANGED <<envVars, pubVars, scanVars, cliVars, schedVars, itemVars,
                   navScript, pubScript, nav>>

----------------------------------------------------------------------------
(* The scanner *)

\* A module name is the list of its "_"-separated parts: split("_") of the
\* text.  A row of the list is its link, its name and whether it shows the
\* warning icon.
RowPool ==
    { [url |-> "a", name |-> <<"X", "OS">>,        warning |-> TRUE],
      [url |-> "b", name |-> <<"Y", "UI">>,        warning |-> TRUE],
      [url |-> "a", name |-> <<"X", "OS", "dup">>, warning |-> TRUE],
      [url |-> "c", name |-> <<"Sandbox", "BL">>,  warning |-> TRUE],
      [url |-> "d", name |-> <<"W", "BL">>,        warning |-> FALSE],
      [url |-> "e", name |-> <<"Z", "BL">>,        warning |-> TRUE] }

\* the parts in the order localeCompare gives them ("_" sorts before letters,
\* so comparing part by part is comparing the texts)
PartOrder == <<"BL", "dup", "OS", "Sandbox", "UI", "W", "X", "Y", "Z">>

IndexOf(seq, x) ==
    IF \E i \in 1..Len(seq) : seq[i] = x
    THEN CHOOSE i \in 1..Len(seq) : seq[i] = x /\ \A j \in 1..(i - 1) : seq[j] # x
    ELSE 0

\* a.name.localeCompare(b.name): negative, zero or positive
RECURSIVE localeCompare(_, _)
localeCompare(a, b) ==
    IF a = <<>> /\ b = <<>> THEN 0
    ELSE IF a = <<>> THEN -1
    ELSE IF b = <<>> THEN 1
    ELSE IF Head(a) = Head(b) THEN localeCompare(Tail(a), Tail(b))
    ELSE IF IndexOf(PartOrder, Head(a)) < IndexOf(PartOrder, Head(b)) THEN -1
    ELSE 1

\* moduleName.toLowerCase().includes("sandbox")
IsSandbox(name) == \E i \in 1..Len(name) : name[i] \in {"Sandbox", "sandbox"}

\* moduleName.split("_").pop(), unknown suffixes defaulting to "UI"
SuffixOf(name) ==
    LET last == name[Len(name)]
    IN  IF last \in Range(PROCESSING_HIERARCHY) THEN last ELSE "UI"

\* the body of "for (let row of rows)": modules.set unless modules.has
AddRowLastWins(map, row) ==
    IF row.warning /\ ~IsSandbox(row.name)
    THEN IF \E i \in 1..Len(map) : map[i].url = row.url
         THEN [i \in 1..Len(map) |->
                  IF map[i].url = row.url
                  THEN [url |-> row.url, name |-> row.name, suffix |-> SuffixOf(row.name)]
                  ELSE map[i]]
         ELSE Append(map, [url |-> row.url, name |-> row.name, suffix |-> SuffixOf(row.name)])
    ELSE map

AddRow(map, row) ==
    IF row.warning /\ ~IsSandbox(row.name) /\
       (\A i \in 1..Len(map) : map[i].url # row.url)
    THEN Append(map, [url |-> row.url, name |-> row.name, suffix |-> SuffixOf(row.name)])
    ELSE map

RECURSIVE AddRows(_, _)
AddRows(map, rows) ==
    IF rows = <<>> THEN map ELSE AddRows(AddRow(map, Head(rows)), Tail(rows))

\* the pages of the list
NumPages == (Len(listing) + pageSize - 1) \div pageSize
PageRows(p) ==
    SubSeq(listing, (p - 1) * pageSize + 1,
           IF p * pageSize < Len(listing) THEN p * pageSize ELSE Len(listing))

\* table?.querySelector("tbody tr")?.innerText || ""
NullText == <<"null">>
FirstRowText(p) == IF PageRows(p) = <<>> THEN <<>> ELSE PageRows(p)[1].name

\* sortModulesByHierarchy: the comparator, and Array.prototype.sort (stable)
InfinityRank == Len(PROCESSING_HIERARCHY)
RankOf(suffix) ==
    IF IndexOf(PROCESSING_HIERARCHY, suffix) # 0
    THEN IndexOf(PROCESSING_HIERARCHY, suffix) - 1
    ELSE InfinityRank

CompareByNameOnly(a, b) == localeCompare(a.name, b.name)

CompareModules(a, b) ==
    IF RankOf(a.suffix) = RankOf(b.suffix)
    THEN localeCompare(a.name, b.name)
    ELSE RankOf(a.suffix) - RankOf(b.suffix)

RECURSIVE InsertSorted(_, _)
InsertSorted(sorted, x) ==
    IF sorted = <<>> THEN <<x>>
    ELSE IF CompareModules(sorted[Len(sorted)], x) <= 0 THEN Append(sorted, x)
    ELSE Append(InsertSorted(SubSeq(sorted, 1, Len(sorted) - 1), x),
                sorted[Len(sorted)])

RECURSIVE sortModulesByHierarchy(_)
sortModulesByHierarchy(modules) ==
    IF modules = <<>> THEN <<>>
    ELSE InsertSorted(sortModulesByHierarchy(SubSeq(modules, 1, Len(modules) - 1)),
                      modules[Len(modules)])

\* saveToFile: fs.writeFileSync(OUTPUT_FILE, ...) resolves against the
\* working directory and replaces the file
saveToFileAppending(files, dir, sortedModules) ==
    [files EXCEPT ![dir] = JsonFile(files[dir].data \o sortedModules)]

saveToFile(files, dir, sortedModules) ==
    [files EXCEPT ![dir] = JsonFile(sortedModules)]

NothingWritten == [written |-> FALSE, data |-> <<>>]
Written(data) == [written |-> TRUE, data |-> data]

\* scanModules from the return of scrapeModulesWithWarnings on: sort in
\* place, filter, save, and when the save throws the catch block, which saves
\* again if anything was scraped.  ok1, ok2: whether the two writes succeed
ScrapeReturns(found, ok1, ok2) ==
    LET sortedModules == sortModulesByHierarchy(found)
        filteredModules == filterModulesByRequestedLayers(sortedModules, scanLayers)
    IN  /\ modulesMap' = found
        /\ scanned' = sortedModules
        /\ IF ok1
           THEN /\ fs' = saveToFile(fs, cwd, filteredModules)
                /\ lastWritten' = Written(filteredModules)
                /\ scanPc' = "ok"
           ELSE IF Len(sortedModules) > 0 /\ ok2
           THEN /\ fs' = saveToFile(fs, cwd, filteredModules)
                /\ lastWritten' = Written(filteredModules)
                /\ scanPc' = "errors"
           ELSE /\ UNCHANGED <<fs, lastWritten>>
                /\ scanPc' = IF Len(sortedModules) > 0 THEN "crashed" ELSE "errors"

\* the catch block of scanModules when the error came before
\* "modules = await scrapeModulesWithWarnings(page)" was assigned
ScanCatch(ok2) ==
    IF Len(scanned) > 0 /\ ok2
    THEN /\ fs' = saveToFile(fs, cwd,
                              filterModulesByRequestedLayers(scanned, scanLayers))
         /\ lastWritten' =
                Written(filterModulesByRequestedLayers(scanned, scanLayers))
         /\ scanPc' = "errors"
    ELSE /\ UNCHANGED <<fs, lastWritten>>
         /\ scanPc' = IF Len(scanned) > 0 THEN "crashed" ELSE "errors"

ScanFrame ==
    UNCHANGED <<pubVars, retryVars, cliVars, schedVars, itemVars, fs0, cwd,
                reads, scanLayers, listing, pageSize>>

\* puppeteer.launch and newPage, outside the try block
ScanLaunch ==
    /\ scanPc = "launch"
    /\ scanPc' = "login"
    /\ ScanFrame
    /\ UNCHANGED <<fs, shown, pending, previousFirstRowText, modulesMap, scanned,
                   lastWritten, processed>>

ScanLaunchFail ==
    /\ scanPc = "launch"
    /\ scanPc' = "crashed"
    /\ ScanFrame
    /\ UNCHANGED <<fs, shown, pending, previousFirstRowText, modulesMap, scanned,
                   lastWritten, processed>>

\* login, page.goto(ESPACES_LIST_URL), applyWarningFilter
SetupOrder == <<"login", "goto", "filter", "page">>

ScanSetup ==
    /\ scanPc \in {"login", "goto", "filter"}
    /\ scanPc' = SetupOrder[IndexOf(SetupOrder, scanPc) + 1]
    /\ ScanFrame
    /\ UNCHANGED <<fs, shown, pending, previousFirstRowText, modulesMap, scanned,
                   lastWritten, processed>>

ScanSetupFail ==
    /\ scanPc \in {"login", "goto", "filter"}
    /\ \E ok2 \in BOOLEAN : ScanCatch(ok2)
    /\ ScanFrame
    /\ UNCHANGED <<shown, pending, previousFirstRowText, modulesMap, scanned,
                   processed>>

\* one pass of the while loop of scrapeModulesWithWarnings up to its next
\* wait: "No Modules to show", the rows of the page shown, the Next button
ScrapePage ==
    /\ scanPc = "page"
    /\ LET found == AddRows(modulesMap, PageRows(shown))
       IN  IF Len(listing) = 0
           THEN \* break; modules.size === 0
                /\ scanPc' = "recheck"
                /\ UNCHANGED <<fs, pending, modulesMap, scanned, lastWritten,
                               processed>>
           ELSE IF shown < NumPages
           THEN \* click Next, waitForFunction
                /\ modulesMap' = found
                /\ pending' = pending + 1
                /\ scanPc' = "wait"
                /\ UNCHANGED <<fs, scanned, lastWritten>>
           ELSE IF Len(found) = 0
           THEN /\ scanPc' = "recheck"
                /\ UNCHANGED <<fs, pending, modulesMap, scanned, lastWritten>>
           ELSE /\ \E ok1, ok2 \in BOOLEAN : ScrapeReturns(found, ok1, ok2)
                /\ UNCHANGED pending
    /\ IF Len(listing) = 0
       THEN TRUE
       ELSE processed' = Append(processed, shown)
    /\ ScanFrame
    /\ UNCHANGED <<shown, previousFirstRowText>>

\* "No modules found in the initial scan. Re-checking the table..."
ScrapeRecheck ==
    /\ scanPc = "recheck"
    /\ \E ok1, ok2 \in BOOLEAN :
          ScrapeReturns(AddRows(modulesMap, PageRows(shown)), ok1, ok2)
    /\ ScanFrame
    /\ UNCHANGED <<shown, pending, previousFirstRowText, processed>>

\* the AJAX refresh of a click on Next arrives
Refresh ==
    /\ pending > 0
    /\ scanPc \in {"wait", "delay", "page", "recheck"}
    /\ pending' = pending - 1
    /\ shown' = IF shown < NumPages THEN shown + 1 ELSE shown
    /\ ScanFrame
    /\ UNCHANGED <<fs, scanPc, previousFirstRowText, modulesMap, scanned,
                   lastWritten, processed>>

\* waitForFunction(firstRowText !== prevText) is satisfied; the first row text
\* is read again into previousFirstRowText
ScrapeWaitDone ==
    /\ scanPc = "wait"
    /\ FirstRowText(shown) # previousFirstRowText
    /\ previousFirstRowText' = FirstRowText(shown)
    /\ scanPc' = "delay"
    /\ ScanFrame
    /\ UNCHANGED <<fs, shown, pending, modulesMap, scanned, lastWritten,
                   processed>>

\* waitForFunction times out: the error leaves scrapeModulesWithWarnings
ScrapeWaitTimeout ==
    /\ scanPc = "wait"
    /\ FirstRowText(shown) = previousFirstRowText
    /\ \E ok2 \in BOOLEAN : ScanCatch(ok2)
    /\ ScanFrame
    /\ UNCHANGED <<shown, pending, previousFirstRowText, modulesMap, scanned,
                   processed>>

\* page.waitForTimeout(REFRESH_DELAY)
ScrapeDelay ==
    /\ scanPc = "delay"
    /\ scanPc' = "page"
    /\ ScanFrame
    /\ UNCHANGED <<fs, shown, pending, previousFirstRowText, modulesMap, scanned,
                   lastWritten, processed>>

----------------------------------------------------------------------------
(* One tab of a logged-in group working through the queue, every await of   *)
(* processTab, isModuleInWarning and processPublishPage a step of its own   *)

\* item.pc: "claim" (top of the while loop), "goto" (line 267), "check"
\* (isModuleInWarning), "pgoto" (line 175), "table" (waitForSelector, 180),
\* "click" (publishButton.click, 206), "progress" (waitForFunction, 210),
\* "settle" (waitForTimeout, 217), "closed" (the loop is left)
\* item.listeners: the "dialog" listeners attached to the page of the tab
\* item.ended: history, one record per task the tab is through with
IdleItem ==
    [pc |-> "idle", task |-> NoTask, retries |-> 0, check |-> "none",
     entered |-> FALSE, clicks |-> 0, listeners |-> 0, ended |-> <<>>]

EndRecord(it, outcome) ==
    [url |-> it.task, check |-> it.check, entered |-> it.entered,
     clicks |-> it.clicks, listeners |-> it.listeners, outcome |-> outcome]

\* the body of the while loop has run to its end for the task: back to the
\* top of the loop, on the same page
ItemEnd(it, outcome) ==
    [pc |-> "claim", task |-> NoTask, retries |-> 0, check |-> "none",
     entered |-> FALSE, clicks |-> 0, listeners |-> it.listeners,
     ended |-> Append(it.ended, EndRecord(it, outcome))]

ItemFrame ==
    /\ UNCHANGED <<envVars, scanVars, retryVars, cliVars, schedVars>>
    /\ UNCHANGED <<pubLayers, taskQueue, mainPc, loadError, thread, browser,
                   groupError, tab, claimLog, aborted>>

\* const task = getNextTask(); if (!task) break;
ItemClaim ==
    /\ item.pc = "claim"
    /\ LET next == getNextTask
       IN  /\ taskIndex' = next.index
           /\ item' = IF next.task # NoTask
                      THEN [item EXCEPT !.pc = "goto", !.task = next.task]
                      ELSE [item EXCEPT !.pc = "closed"]
    /\ ItemFrame

\* page.goto(url) of processTab settles
ItemGoto ==
    /\ item.pc = "goto"
    /\ item' = [item EXCEPT !.pc = "check"]
    /\ ItemFrame /\ UNCHANGED taskIndex

\* page.goto(url) of processTab rejects: the catch outside the loop
ItemGotoFail ==
    /\ item.pc = "goto"
    /\ item' = [ItemEnd(item, "aborted") EXCEPT !.pc = "closed"]
    /\ ItemFrame /\ UNCHANGED taskIndex

\* what the status check meets: the warning icon; no status label; the
\* label but no icon within WARNING_CHECK_TIMEOUT; any other error
CheckResults == {"warning", "noLabel", "timeout", "error"}

\* isModuleInWarning: true for the icon, false otherwise (return false of
\* line 248 and of the catch block)
isModuleInWarningAlways(observed) == TRUE

isModuleInWarning(observed) == observed = "warning"

\* if (await isModuleInWarning(page)) processPublishPage else "Skipping"
ItemCheck ==
    /\ item.pc = "check"
    /\ \E observed \in CheckResults :
          LET checked == [item EXCEPT !.check = observed]
          IN  item' = IF isModuleInWarning(observed)
                      THEN [checked EXCEPT !.pc = "pgoto", !.entered = TRUE]
                      ELSE ItemEnd(checked, "skipped")
    /\ ItemFrame /\ UNCHANGED taskIndex

\* page.goto(url) of processPublishPage settles
ItemNavigate ==
    /\ item.pc = "pgoto"
    /\ item' = [item EXCEPT !.pc = "table"]
    /\ ItemFrame /\ UNCHANGED taskIndex

\* waitForSelector(tableSelector) settles; the rows are searched for the
\* published version with a Publish button: page.once("dialog", ...) and
\* the click, or "No published version found or no Publish button" and return
ItemTable ==
    /\ item.pc = "table"
    /\ \E hasButton \in BOOLEAN :
          item' = IF hasButton
                  THEN [item EXCEPT !.pc = "click", !.listeners = @ + 1]
                  ELSE ItemEnd(item, "nothing")
    /\ ItemFrame /\ UNCHANGED taskIndex

\* publishButton.click() settles.  When the page shows a dialog every
\* listener attached with once() runs and is removed; when it shows none
\* they stay
ItemClick ==
    /\ item.pc = "click"
    /\ \E dialog \in BOOLEAN :
          item' = [item EXCEPT !.pc = "progress", !.clicks = @ + 1,
                               !.listeners = IF dialog THEN 0 ELSE @]
    /\ ItemFrame /\ UNCHANGED taskIndex

\* waitForFunction(progress bar or progression table) settles
ItemProgress ==
    /\ item.pc = "progress"
    /\ item' = [item EXCEPT !.pc = "settle"]
    /\ ItemFrame /\ UNCHANGED taskIndex

\* waitForTimeout(15000), "Publish action started successfully", return
ItemSettle ==
    /\ item.pc = "settle"
    /\ item' = ItemEnd(item, "started")
    /\ ItemFrame /\ UNCHANGED taskIndex

\* a navigation or wait of processPublishPage rejects: the catch block
ItemError ==
    /\ item.pc \in {"pgoto", "table", "progress"}
    /\ LET r == RetryAfterError(item.retries)
       IN  item' = IF r.giveUp THEN ItemEnd(item, "failed")
                   ELSE IF LoopTest(r.retries)
                   THEN [item EXCEPT !.pc = "pgoto", !.retries = r.retries]
                   ELSE ItemEnd(item, "undefined")
    /\ ItemFrame /\ UNCHANGED taskIndex

----------------------------------------------------------------------------
(* The top-level code of the two scripts: environment validation, help,     *)
(* parseRequestedLayers, and the call of scanModules() / processURLs()      *)

\* process.env: a variable is undefined, empty or set
Undefined == "undefined"
EnvNames == {"WODIFY_USERNAME", "WODIFY_PASSWORD", "WODIFY_ENV"}
EnvValues == {Undefined, "", "x"}

\* !value
Not(value) == value \in {Undefined, ""}

\* the test of line 7:  !USERNAME || !PASSWORD || !ENV
MissingEnvAll(env) == \A n \in EnvNames : Not(env[n])

MissingEnv(env) == \E n \in EnvNames : Not(env[n])

\* An argument of the command line is the list of its comma-separated
\* tokens, argument.split(","): "-h" is <<"-h">>, "" is <<"">>, "os, Ui" is
\* <<"os", " Ui">>.
HelpFlags == {"-h", "--help"}

\* String.prototype.trim and toUpperCase on the tokens used
trim(t) == IF t = " Ui" THEN "Ui" ELSE t

toUpperCase(t) ==
    CASE t = "os" -> "OS"
      [] t = "Ui" -> "UI"
      [] t = " Ui" -> " UI"
      [] t = "xx" -> "XX"
      [] t = "-h" -> "-H"
      [] t = "--help" -> "--HELP"
      [] OTHER -> t

\* args.includes(x)
includes(args, x) == \E i \in 1..Len(args) : args[i] = <<x>>

\* layerMap[layer.toUpperCase()] = layer, for every layer of the hierarchy
layerMap ==
    [u \in {toUpperCase(PROCESSING_HIERARCHY[i]) : i \in 1..Len(PROCESSING_HIERARCHY)} |->
        PROCESSING_HIERARCHY[
            CHOOSE i \in 1..Len(PROCESSING_HIERARCHY) :
                /\ toUpperCase(PROCESSING_HIERARCHY[i]) = u
                /\ \A j \in (i + 1)..Len(PROCESSING_HIERARCHY) :
                      toUpperCase(PROCESSING_HIERARCHY[j]) # u]]

\* parseRequestedLayers: null, or the list of the valid layers of args[0]
parseRequestedLayersCaseSensitive(args) ==
    IF Len(args) = 0 THEN NullLayers
    ELSE LET layersArg == args[1]
             trimmed == [i \in 1..Len(layersArg) |-> trim(layersArg[i])]
             valid(layer) == layer \in DOMAIN layerMap
         IN  SelectSeq(trimmed, valid)

parseRequestedLayers(args) ==
    IF Len(args) = 0 THEN NullLayers
    ELSE LET layersArg == args[1]
             trimmed == [i \in 1..Len(layersArg) |-> trim(layersArg[i])]
             valid(layer) == toUpperCase(layer) \in DOMAIN layerMap
             kept == SelectSeq(trimmed, valid)
             layers == [i \in 1..Len(kept) |-> layerMap[toUpperCase(kept[i])]]
         IN  IF Len(layers) = 0 THEN NullLayers ELSE layers

\* how the top-level code ends: an uncaught Error (exit code "1"),
\* process.exit(0) after the usage text, or the call of the main function
TopLevel(cmd, env, args) ==
    IF MissingEnv(env)
    THEN [pc |-> "thrown", exitCode |-> "1", usage |-> FALSE]
    ELSE IF includes(args, "-h") \/ includes(args, "--help")
    THEN [pc |-> "exited", exitCode |-> "0", usage |-> TRUE]
    ELSE IF cmd = "publish" /\ (Not(env["WODIFY_USERNAME"]) \/ Not(env["WODIFY_PASSWORD"]))
    THEN [pc |-> "thrown", exitCode |-> "1", usage |-> FALSE]
    ELSE [pc |-> "main", exitCode |-> "none", usage |-> FALSE]

\* node <script> [args]: the top-level code runs in one turn, up to the first
\* await of the main function.  For the scanner that is puppeteer.launch of
\* scanModules; processURLs of the publisher is the step ProcessURLs.
CliStart ==
    /\ cli.pc = "start"
    /\ LET end == TopLevel(cli.cmd, cli.env, cli.args)
           requestedLayers == parseRequestedLayers(cli.args)
       IN  /\ cli' = [cli EXCEPT !.pc = end.pc, !.exitCode = end.exitCode,
                                 !.usage = end.usage]
           /\ pubLayers' = IF end.pc = "main" /\ cli.cmd = "publish"
                           THEN requestedLayers ELSE pubLayers
           /\ scanLayers' = IF end.pc = "main" /\ cli.cmd = "scan"
                            THEN requestedLayers ELSE scanLayers
           /\ scanPc' = IF end.pc = "main" /\ cli.cmd = "scan"
                        THEN "launch" ELSE scanPc
    /\ UNCHANGED <<envVars, retryVars, schedVars, itemVars>>
    /\ UNCHANGED <<taskQueue, taskIndex, mainPc, loadError, thread, browser,
                   groupError, tab, claimLog, aborted>>
    /\ UNCHANGED <<listing, pageSize, shown, pending, previousFirstRowText,
                   modulesMap, scanned, lastWritten, processed>>

\* processURLs() is the last statement of the publisher's top-level code
CliProcessURLs ==
    /\ cli.pc = "main" /\ cli.cmd = "publish"
    /\ ProcessURLs

----------------------------------------------------------------------------
(* run-scheduled.js *)

\* a cycle is the pair of child processes one call of the startup code or of
\* the cron callback leads to; a child is "none" (not started), "running",
\* or has exited: "ok", or "error" (exec hands an error to its callback for
\* a non-zero exit code, a signal, or output beyond maxBuffer, after which
\* the child is killed and the callback runs when it has closed)
NoCycle == [scanner |-> "none", publisher |-> "none"]

\* runScript(scriptPath, name, callback): exec starts the child at once
runScript(cyc, name) == [cyc EXCEPT ![name] = "running"]

\* the callback argument of runScript: given for the scanner, not for the
\* publisher
HasCallbackNever(name) == FALSE

HasCallback(name) == name = "scanner"

\* the callback of exec: the child has exited; log, then "if (callback)
\* callback()", which for the scanner is the runScript of the publisher
ExecCallback(cyc, name, error) ==
    LET exited == [cyc EXCEPT ![name] = IF error THEN "error" ELSE "ok"]
    IN  IF HasCallback(name) THEN runScript(exited, "publisher") ELSE exited

\* the callback of cron.schedule: a new cycle, whatever the earlier ones do
CronTick ==
    /\ Len(cycles) \in 1..(MaxCycles - 1)
    /\ cycles' = Append(cycles, runScript(NoCycle, "scanner"))
    /\ UNCHANGED <<envVars, pubVars, scanVars, retryVars, cliVars, itemVars>>

ScannerExit(c) ==
    /\ cycles[c].scanner = "running"
    /\ \E error \in BOOLEAN :
          cycles' = [cycles EXCEPT ![c] = ExecCallback(cycles[c], "scanner", error)]
    /\ UNCHANGED <<envVars, pubVars, scanVars, retryVars, cliVars, itemVars>>

PublisherExit(c) ==
    /\ cycles[c].publisher = "running"
    /\ \E error \in BOOLEAN :
          cycles' = [cycles EXCEPT ![c] = ExecCallback(cycles[c], "publisher", error)]
    /\ UNCHANGED <<envVars, pubVars, scanVars, retryVars, cliVars, itemVars>>

----------------------------------------------------------------------------
(* Initial states *)

LayerOfRank == <<"BL", "OS", "UI">>
UrlOfRank == <<"a", "b", "c", "d", "e">>

\* the k-th record of a sorted snapshot: one BL, one OS, then UI records
PoolRecord(k) ==
    [url    |-> UrlOfRank[k],
     name   |-> <<UrlOfRank[k], LayerOfRank[IF k < 3 THEN k ELSE 3]>>,
     suffix |-> LayerOfRank[IF k < 3 THEN k ELSE 3]]

PubSnapshot(n) == [k \in 1..n |-> PoolRecord(k)]

\* what a publish run can find at its path
PubFiles ==
    {MissingFile, CorruptFile} \cup {JsonFile(PubSnapshot(n)) : n \in 0..MaxModules}

LayerArgs == {NullLayers, <<"OS">>}

\* a record left by an earlier scan of another list
OldRecord == [url |-> "z", name |-> <<"Z", "UI">>, suffix |-> "UI"]
PriorFiles == {MissingFile, JsonFile(<<OldRecord>>)}

Listings == UNION {[1..n -> RowPool] : n \in 0..MaxRows}

PubIdle ==
    /\ taskQueue = <<>>
    /\ taskIndex = 0
    /\ mainPc = "start"
    /\ loadError = "none"
    /\ thread = [g \in Subdomains |-> "idle"]
    /\ browser = [g \in Subdomains |-> "none"]
    /\ groupError = [g \in Subdomains |-> "none"]
    /\ tab = [w \in Workers |-> IdleTab]
    /\ claimLog = <<>>
    /\ aborted = {}
    /\ reads = 0

ScanIdle(pc) ==
    /\ shown = 1
    /\ pending = 0
    /\ scanPc = pc
    /\ previousFirstRowText = NullText
    /\ modulesMap = <<>>
    /\ scanned = <<>>
    /\ lastWritten = NothingWritten
    /\ processed = <<>>

RetryIdle(pc) ==
    /\ nav = [RetryStart EXCEPT !.pc = pc]
    /\ pub = [RetryStart EXCEPT !.pc = pc]

NoScripts ==
    /\ navScript = [k \in 1..(RETRY_LIMIT + 1) |-> FALSE]
    /\ pubScript = [k \in 1..(RETRY_LIMIT + 1) |-> FALSE]

NoListing ==
    /\ scanLayers = NullLayers
    /\ listing = <<>>
    /\ pageSize = 1

\* run-scheduled.js is not running
NoSchedule == cycles = <<>>

NoItem == item = IdleItem

\* the state of a command that is past its top-level code
AllSet == [n \in EnvNames |-> "x"]
NoCli ==
    cli = [cmd |-> "none", env |-> AllSet, args |-> <<>>,
           pc |-> "main", exitCode |-> "none", usage |-> FALSE]

\* the tokens, arguments and command lines tried
LayerTokens == {"OS", "os", " Ui", "xx", ""}
Arguments ==
    UNION {[1..n -> LayerTokens] : n \in 1..MaxTokens} \cup {<<f>> : f \in HelpFlags}
ArgLists ==
    {<<>>} \cup {<<a>> : a \in Arguments}
           \cup {<<a, <<f>>>> : a \in {<<"OS">>, <<"xx">>}, f \in HelpFlags}

\* the files a publish command is given: any list of records, sorted or not
Snapshots == UNION {[1..n -> {PoolRecord(k) : k \in 1..3}] : n \in 0..MaxSnapshot}

----------------------------------------------------------------------------
(* Spec: one publish run *)

Init ==
    /\ cwd = "root"
    /\ fs \in {[d \in Dirs |-> IF d = ScriptDir THEN f ELSE MissingFile] : f \in PubFiles}
    /\ fs0 = fs
    /\ pubLayers \in LayerArgs
    /\ PubIdle
    /\ NoListing /\ ScanIdle("idle")
    /\ NoScripts /\ RetryIdle("idle")
    /\ NoCli /\ NoSchedule /\ NoItem

PubNext ==
    \/ \E g \in Subdomains : Launch(g)
    \/ \E g \in Subdomains : LaunchFail(g)
    \/ \E g \in Subdomains : Login(g)
    \/ \E g \in Subdomains : LoginFail(g)
    \/ \E w \in Workers : NewPage(w)
    \/ \E w \in Workers : Goto(w)
    \/ \E w \in Workers : GotoFail(w)
    \/ \E w \in Workers : CheckWarning(w)
    \/ \E w \in Workers : CheckNoWarning(w)
    \/ \E w \in Workers : PublishReturn(w)
    \/ \E w \in Workers : PublishError(w)
    \/ \E g \in Subdomains : CloseBrowser(g)

Next == ProcessURLs \/ PubNext

Spec == Init /\ [][Next]_vars

----------------------------------------------------------------------------
(* SpecRetry: the two retry loops against every script of outcomes *)

RetryInit ==
    /\ cwd = "root"
    /\ fs = [d \in Dirs |-> MissingFile]
    /\ fs0 = fs
    /\ pubLayers = NullLayers
    /\ PubIdle
    /\ NoListing /\ ScanIdle("idle")
    /\ navScript \in Scripts
    /\ pubScript \in Scripts
    /\ RetryIdle("loop")
    /\ NoCli /\ NoSchedule /\ NoItem

RetryNext == NavAttempt \/ PubAttempt

SpecRetry == RetryInit /\ [][RetryNext]_vars

----------------------------------------------------------------------------
(* SpecScan: one scan pass over a list, an earlier snapshot possibly in place *)

ScanStart ==
    /\ scanLayers \in LayerArgs
    /\ listing \in Listings
    /\ pageSize \in {1, 2}
    /\ ScanIdle("launch")
    /\ pubLayers = NullLayers
    /\ PubIdle
    /\ NoScripts /\ RetryIdle("idle")
    /\ NoCli /\ NoSchedule /\ NoItem

ScanInit ==
    /\ cwd = "root"
    /\ fs \in {[d \in Dirs |-> IF d = cwd THEN f ELSE MissingFile] : f \in PriorFiles}
    /\ fs0 = fs
    /\ ScanStart

ScanNext ==
    \/ ScanLaunch
    \/ ScanLaunchFail
    \/ ScanSetup
    \/ ScanSetupFail
    \/ ScrapePage
    \/ ScrapeRecheck
    \/ Refresh
    \/ ScrapeWaitDone
    \/ ScrapeWaitTimeout
    \/ ScrapeDelay

SpecScan == ScanInit /\ [][ScanNext]_vars

----------------------------------------------------------------------------
(* SpecHandoff: a scan pass, then the start of a publish run, both started  *)
(* from the same working directory                                          *)

ScanEnded == scanPc \in {"ok", "errors", "crashed"}

HandoffInit ==
    /\ cwd \in Dirs
    /\ fs \in [Dirs -> PriorFiles]
    /\ fs0 = fs
    /\ ScanStart
    /\ scanLayers = NullLayers

HandoffNext == ScanNext \/ (ScanEnded /\ ProcessURLs)

SpecHandoff == HandoffInit /\ [][HandoffNext]_vars

----------------------------------------------------------------------------
(* SpecSchedule: run-scheduled.js, the two commands seen as child processes *)

\* the top-level code has run: the immediate cycle is started and the cron
\* job is registered
ScheduleInit ==
    /\ cycles = <<runScript(NoCycle, "scanner")>>
    /\ cwd = "root"
    /\ fs = [d \in Dirs |-> MissingFile]
    /\ fs0 = fs
    /\ pubLayers = NullLayers
    /\ PubIdle
    /\ NoListing /\ ScanIdle("idle")
    /\ NoScripts /\ RetryIdle("idle")
    /\ NoCli /\ NoItem

ScheduleNext ==
    \/ CronTick
    \/ \E c \in 1..Len(cycles) : ScannerExit(c)
    \/ \E c \in 1..Len(cycles) : PublisherExit(c)

SpecSchedule == ScheduleInit /\ [][ScheduleNext]_vars

----------------------------------------------------------------------------
(* SpecCli: either command is started from a command line, in an            *)
(* environment, over a snapshot file; it runs to the first await            *)

CliInit ==
    /\ cli \in [cmd : {"scan", "publish"}, env : [EnvNames -> EnvValues],
                 args : ArgLists, pc : {"start"}, exitCode : {"none"},
                 usage : {FALSE}]
    /\ cwd = "src"
    /\ fs \in {[d \in Dirs |-> IF d = ScriptDir THEN JsonFile(snap) ELSE MissingFile] :
                  snap \in Snapshots}
    \* every environment and command line over one file, and every file
    \* under every layers argument of a complete environment
    /\ \/ fs[ScriptDir].data = PubSnapshot(MaxSnapshot)
       \/ cli.env = AllSet /\ cli.cmd = "publish" /\ Len(cli.args) = 1
    /\ fs0 = fs
    /\ pubLayers = NullLayers
    /\ PubIdle
    /\ NoListing /\ ScanIdle("idle")
    /\ NoScripts /\ RetryIdle("idle")
    /\ NoSchedule /\ NoItem

CliNext ==
    \/ CliStart
    \/ CliProcessURLs
    \/ ScanLaunch
    \/ ScanLaunchFail

SpecCli == CliInit /\ [][CliNext]_vars

----------------------------------------------------------------------------
(* SpecItem: one tab of a group that has logged in, from its first claim    *)

ItemInit ==
    /\ item = [IdleItem EXCEPT !.pc = "claim"]
    /\ taskQueue \in {[i \in 1..n |-> PubSnapshot(n)[i].url] : n \in 1..MaxModules}
    /\ taskIndex = 0
    /\ mainPc = "awaitAll"
    /\ loadError = "none"
    /\ thread = [g \in Subdomains |-> IF g = 1 THEN "tabs" ELSE "idle"]
    /\ browser = [g \in Subdomains |-> IF g = 1 THEN "open" ELSE "none"]
    /\ groupError = [g \in Subdomains |-> "none"]
    /\ tab = [w \in Workers |-> IdleTab]
    /\ claimLog = <<>>
    /\ aborted = {}
    /\ reads = 1
    /\ cwd = "src"
    /\ fs = [d \in Dirs |-> IF d = ScriptDir
                             THEN JsonFile(PubSnapshot(Len(taskQueue)))
                             ELSE MissingFile]
    /\ fs0 = fs
    /\ pubLayers = NullLayers
    /\ NoListing /\ ScanIdle("idle")
    /\ NoScripts /\ RetryIdle("idle")
    /\ NoCli /\ NoSchedule

ItemNext ==
    \/ ItemClaim
    \/ ItemGoto
    \/ ItemGotoFail
    \/ ItemCheck
    \/ ItemNavigate
    \/ ItemTable
    \/ ItemClick
    \/ ItemProgress
    \/ ItemSettle
    \/ ItemError

SpecItem == ItemInit /\ [][ItemNext]_vars

----------------------------------------------------------------------------
(* Properties *)

\* the positions of claimLog at which url was handed out (to subdomain g)
ClaimsOf(url) == {k \in 1..Len(claimLog) : claimLog[k].url = url}
ClaimsOfIn(url, g) == {k \in ClaimsOf(url) : claimLog[k].sub = g}

AllSessionsNoAbort ==
    /\ mainPc = "complete"
    /\ loadError = "none"
    /\ \A g \in Subdomains : thread[g] = "closed" /\ groupError[g] = "none"
    /\ aborted = {}

\* C1: in a publish run no record of the queue is handed out twice, to the
\* same or to another worker of any group; two workers never hold the same
\* task; and there are never more successful claims than records, so every
\* claim after the N-th returns null.
C1_EachRecordClaimedOnce ==
    /\ \A i, j \in 1..Len(claimLog) :
          claimLog[i].url = claimLog[j].url => i = j
    /\ \A k \in 1..Len(claimLog) : claimLog[k].url \in Range(taskQueue)
    /\ \A w, v \in Workers :
          tab[w].task # NoTask /\ tab[w].task = tab[v].task => w = v
    /\ Len(claimLog) <= Len(taskQueue)
    /\ Len(claimLog) = taskIndex

\* C1 witness: a queue of two or more records is drained by workers of two
\* groups and a further claim has returned null.
C1_Witness ==
    /\ Len(taskQueue) >= 2
    /\ Len(claimLog) = Len(taskQueue)
    /\ \E i, j \in 1..Len(claimLog) : claimLog[i].sub # claimLog[j].sub
    /\ \E w \in Workers : tab[w].pc = "done" /\ w \notin aborted

\* C2 as stated: when every group has established its session, no worker
\* aborted and the run is complete, every record of the queue was claimed
\* exactly once within each group.
C2_OncePerGroup ==
    AllSessionsNoAbort =>
        \A g \in Subdomains : \A i \in 1..Len(taskQueue) :
            Cardinality(ClaimsOfIn(taskQueue[i], g)) = 1

\* C2 amended: the groups share one queue; under the same conditions every
\* record of the queue was claimed exactly once in the whole run, so by a
\* worker of exactly one group.
C2_OnceOverAllGroups ==
    AllSessionsNoAbort =>
        \A i \in 1..Len(taskQueue) : Cardinality(ClaimsOf(taskQueue[i])) = 1

\* C2 witness: such a run over two records, claimed in two different groups.
C2_Witness ==
    /\ AllSessionsNoAbort
    /\ Len(taskQueue) >= 2
    /\ \E i, j \in 1..Len(claimLog) : claimLog[i].sub # claimLog[j].sub

\* what C3 says of one retry loop run against one script of outcomes
RetryBounded(st, script, onSuccess, onGiveUp) ==
    \* never more than RETRY_LIMIT attempts
    /\ st.attempts <= RETRY_LIMIT
    \* an attempt is made only when every attempt before it failed
    /\ \A k \in 1..(st.attempts - 1) : ~Outcome(script, k)
    \* the loop goes on only after a failure
    /\ st.pc = "loop" => \A k \in 1..st.attempts : ~Outcome(script, k)
    \* it returns the success of its last attempt, or gives up after the
    \* RETRY_LIMIT-th failure
    /\ st.pc = "returned" =>
          IF Outcome(script, st.attempts)
          THEN st.result = onSuccess
          ELSE st.attempts = RETRY_LIMIT /\ st.result = onGiveUp

\* C3: navigateWithRetries and processPublishPage make at most RETRY_LIMIT
\* attempts, return at the first attempt that succeeds, and end as a
\* failure after RETRY_LIMIT failed attempts, with no further attempt.
C3_AtMostRetryLimitAttempts ==
    /\ RetryBounded(nav, navScript, "true", "false")
    /\ RetryBounded(pub, pubScript, "done", "skipped")

\* C3 witness: navigateWithRetries succeeded at its third attempt and
\* processPublishPage gave up after three.
C3_Witness ==
    /\ nav = [pc |-> "returned", retries |-> 2, attempts |-> 3, result |-> "true"]
    /\ pub = [pc |-> "returned", retries |-> 3, attempts |-> 3, result |-> "skipped"]
    /\ pubScript[4]

\* C4 as stated: no failure of a navigation or wait for a claimed item ends
\* the loop of the worker that claimed it.
C4_ItemFailureKeepsWorker == \A w \in Workers : w \notin aborted

\* the records of the module list that a scan pass can find
FoundByPass(rec) ==
    \E i \in 1..Len(listing) :
        /\ listing[i].warning
        /\ listing[i].url = rec.url
        /\ listing[i].name = rec.name

SnapshotFile == fs[cwd]

\* C5 as stated: a scan pass that ended with an error after it had
\* accumulated records has written them (those of the requested layers) to
\* the snapshot file.
C5_PartialResultsSaved ==
    (scanPc = "errors" /\ Len(modulesMap) > 0) =>
        /\ lastWritten.written
        /\ SnapshotFile.kind = "json"
        /\ \A i \in 1..Len(modulesMap) :
              (scanLayers = NullLayers \/ modulesMap[i].suffix \in Range(scanLayers))
                  => modulesMap[i] \in Range(SnapshotFile.data)

\* C6: a group whose login failed has started no tab and claimed nothing, its
\* error was caught (processThread runs its finally block and resolves), and
\* the step in which a login fails changes nothing of any other group nor of
\* processURLs.
C6_LoginFailureIsolated ==
    /\ [](\A g \in Subdomains : groupError[g] = "login" =>
            /\ thread[g] \in {"finally", "closed"}
            /\ \A w \in Workers : w[1] = g => tab[w].pc = "idle"
            /\ \A k \in 1..Len(claimLog) : claimLog[k].sub # g)
    /\ [][\A g \in Subdomains :
            (groupError[g] # "login" /\ groupError'[g] = "login") =>
                /\ mainPc' = mainPc
                /\ tab' = tab
                /\ taskIndex' = taskIndex
                /\ \A h \in Subdomains \ {g} :
                      /\ thread'[h] = thread[h]
                      /\ browser'[h] = browser[h]
                      /\ groupError'[h] = groupError[h]]_vars

\* C6 witness: the login of one group failed, and a sibling group logged in,
\* drained the queue and closed; the run is complete.
C6_Witness ==
    /\ mainPc = "complete"
    /\ \E g, h \in Subdomains :
          /\ groupError[g] = "login" /\ thread[g] = "closed"
          /\ groupError[h] = "none" /\ thread[h] = "closed"
          /\ \E k \in 1..Len(claimLog) : claimLog[k].sub = h
    /\ Len(taskQueue) >= 1
    /\ Len(claimLog) = Len(taskQueue)

\* C7 as stated: when a run that started its groups reports "complete",
\* every group has finished: no thread is running, no browser is open and
\* every worker has left its loop.
C7_CompleteAfterEveryGroup ==
    (mainPc = "complete" /\ loadError = "none") =>
        /\ \A g \in Subdomains : thread[g] \in {"closed", "rejected"}
        /\ \A g \in Subdomains : browser[g] # "open"
        /\ \A w \in Workers : tab[w].pc \in {"idle", "done"}

OnlyFoundByPass == \A i \in 1..Len(SnapshotFile.data) : FoundByPass(SnapshotFile.data[i])

\* C8 as stated: after a scan pass has ended, normally or with an error, the
\* snapshot file holds only records found by that pass.
C8_ScanReplacesSnapshot ==
    (ScanEnded /\ SnapshotFile.kind = "json") => OnlyFoundByPass

\* C8 amended: a scan pass that ends normally has written the snapshot, and
\* after a pass that wrote it the file holds what was written and only
\* records found by that pass; a pass that ended without writing left the
\* files as they were.
C8_SavedScanReplacesSnapshot ==
    /\ scanPc = "ok" => lastWritten.written
    /\ (ScanEnded /\ lastWritten.written) =>
          /\ SnapshotFile = JsonFile(lastWritten.data)
          /\ OnlyFoundByPass
    /\ (ScanEnded /\ ~lastWritten.written) => fs = fs0

\* C8 witness: a pass over an earlier snapshot ended normally and saved
\* records of its own.
C8_Witness ==
    /\ scanPc = "ok"
    /\ fs0[cwd] = JsonFile(<<OldRecord>>)
    /\ Len(SnapshotFile.data) >= 2

NothingStarted ==
    /\ \A g \in Subdomains : thread[g] = "idle" /\ browser[g] = "none"
    /\ \A w \in Workers : tab[w].pc = "idle"
    /\ taskQueue = <<>>
    /\ taskIndex = 0
    /\ claimLog = <<>>

\* C9 as stated: when the snapshot file is missing or unreadable the run
\* starts no group, claims nothing and is not reported as complete.
C9_LoadFailurePropagates ==
    loadError # "none" => NothingStarted /\ mainPc # "complete"

\* C9 amended: when the snapshot file is missing or unreadable the run starts
\* no group and claims nothing; the failure is logged inside processURLs and
\* the run is reported as complete.
C9_LoadFailureStartsNothing ==
    /\ mainPc = "start" => loadError = "none"
    /\ loadError # "none" => NothingStarted /\ mainPc = "complete"
    /\ (mainPc # "start" /\ fs[ScriptDir].kind # "json") => loadError # "none"

\* C9 witness: a run over a file that does not parse has ended.
C9_Witness == loadError = "parse" /\ mainPc = "complete"

\* C10 as stated: from whatever directory the two commands are started, a
\* publish run that follows a scan pass which saved a snapshot loads that
\* snapshot.
C10_PublisherLoadsLastScan ==
    (mainPc # "start" /\ lastWritten.written) =>
        /\ loadError = "none"
        /\ taskQueue =
              [i \in 1..Len(lastWritten.data) |-> lastWritten.data[i].url]

\* C11: in every cycle of the scheduler, the one at startup and every
\* recurring one, the scanner is started first, the publisher is started
\* only once the scanner of that cycle has exited, and it has been started
\* whenever that scanner has exited, with or without an error.
C11_PublisherAfterScannerExit ==
    \A c \in 1..Len(cycles) :
        /\ cycles[c].scanner # "none"
        /\ cycles[c].publisher # "none" => cycles[c].scanner \in {"ok", "error"}
        /\ cycles[c].scanner \in {"ok", "error"} => cycles[c].publisher # "none"

\* C11 witness: the publisher of the startup cycle ran after a scanner that
\* ended normally, and the publisher of a recurring cycle is running after
\* a scanner that ended with an error.
C11_Witness ==
    /\ Len(cycles) >= 2
    /\ cycles[1].scanner = "ok" /\ cycles[1].publisher \in {"ok", "error"}
    /\ cycles[2].scanner = "error" /\ cycles[2].publisher = "running"

UrlsUnique(s) == \A i, j \in 1..Len(s) : s[i].url = s[j].url => i = j
IsPrefix(s, t) == Len(s) <= Len(t) /\ \A i \in 1..Len(s) : s[i] = t[i]

\* the rows the scanner takes a record from: warning icon, no "Sandbox"
Qualifies(row) == row.warning /\ ~IsSandbox(row.name)

\* the first qualifying row of rows with the url of row
FirstWithUrl(rows, url) ==
    rows[CHOOSE i \in 1..Len(rows) :
            /\ Qualifies(rows[i]) /\ rows[i].url = url
            /\ \A j \in 1..(i - 1) : ~(Qualifies(rows[j]) /\ rows[j].url = url)]

\* C12: the records accumulated and every snapshot written hold one record
\* per url (and, unfiltered, a record for every url accumulated); a record
\* once accumulated is never replaced; and when a page is handled every
\* qualifying row of it has a record afterwards, which for a url not seen
\* before is that of the first such row of the page.
C12_OneRecordPerUrlFirstSeen ==
    /\ [](/\ UrlsUnique(modulesMap)
          /\ lastWritten.written =>
                /\ UrlsUnique(lastWritten.data)
                /\ SnapshotFile.data = lastWritten.data
                /\ Range(lastWritten.data) \subseteq Range(modulesMap)
                /\ scanLayers = NullLayers =>
                      Range(modulesMap) \subseteq Range(lastWritten.data))
    /\ [][/\ IsPrefix(modulesMap, modulesMap')
          /\ (processed' # processed \/ modulesMap' # modulesMap) =>
                \A i \in 1..Len(PageRows(shown)) :
                    LET row == PageRows(shown)[i]
                    IN  Qualifies(row) =>
                          \E k \in 1..Len(modulesMap') :
                              /\ modulesMap'[k].url = row.url
                              /\ k > Len(modulesMap) =>
                                    modulesMap'[k].name =
                                        FirstWithUrl(PageRows(shown), row.url).name]_vars

\* C12 witness: a pass over a list in which one url is on two pages under two
\* names has ended normally; the snapshot holds the url once, under the
\* name seen first.
C12_Witness ==
    /\ scanPc = "ok" /\ pageSize = 1 /\ scanLayers = NullLayers
    /\ \E i, j \in 1..Len(listing) :
          /\ i < j
          /\ Qualifies(listing[i]) /\ Qualifies(listing[j])
          /\ listing[i].url = listing[j].url /\ listing[i].name # listing[j].name
          /\ \E k \in 1..Len(SnapshotFile.data) :
                /\ SnapshotFile.data[k].url = listing[i].url
                /\ SnapshotFile.data[k].name = listing[i].name
    /\ processed = [k \in 1..Len(listing) |-> k]

\* the scanned category code of a record was not one of the hierarchy
Unrecognized(rec) == rec.name[Len(rec.name)] \notin Range(PROCESSING_HIERARCHY)

\* ascending rank in PROCESSING_HIERARCHY, name order within a rank
OrderedByHierarchy(s) ==
    \A i, j \in 1..Len(s) :
        i < j =>
            \/ IndexOf(PROCESSING_HIERARCHY, s[i].suffix)
                    < IndexOf(PROCESSING_HIERARCHY, s[j].suffix)
            \/ /\ s[i].suffix = s[j].suffix
               /\ localeCompare(s[i].name, s[j].name) <= 0

Kept(s, F) == {i \in 1..Len(s) : s[i].suffix \in F}
NthOf(K, j) == CHOOSE i \in K : Cardinality({k \in K : k < i}) = j - 1

\* C14: the queue a publish command builds from snapshot S under the
\* requested layers F holds exactly the records of S whose category is in F
\* (all of S without a filter), each as often as in S and in the order of S.
C14_QueueIsFilteredSubsequence ==
    (cli.cmd = "publish" /\ cli.pc = "main" /\ mainPc # "start") =>
        LET S == fs[ScriptDir].data
            K == IF pubLayers = NullLayers
                 THEN 1..Len(S)
                 ELSE Kept(S, Range(pubLayers))
        IN  /\ Len(taskQueue) = Cardinality(K)
            /\ \A j \in 1..Len(taskQueue) : taskQueue[j] = S[NthOf(K, j)].url
            /\ pubLayers # NullLayers =>
                  \A i \in 1..Len(S) :
                      S[i].suffix \notin Range(pubLayers) =>
                          S[i].url \notin Range(taskQueue)

\* C14 witness: publish with filter "os" over a snapshot of a UI, an OS and
\* a BL record has queued the OS record alone.
C14_Witness ==
    /\ cli.cmd = "publish" /\ cli.args = << <<"os">> >>
    /\ fs[ScriptDir].data = <<PoolRecord(3), PoolRecord(2), PoolRecord(1)>>
    /\ mainPc = "awaitAll"
    /\ taskQueue = <<PoolRecord(2).url>>

\* the layers a token names, case ignored and blanks around it dropped
LayersNamed(token) ==
    {l \in Range(PROCESSING_HIERARCHY) : toUpperCase(trim(token)) = toUpperCase(l)}

\* C15: a command that reaches its main function runs without filter when
\* it has no argument or no token of its first argument names a layer, and
\* otherwise with exactly the layers its tokens name, case ignored.
C15_ParsedLayers ==
    (cli.pc = "main" /\ cli.cmd \in {"scan", "publish"}) =>
        LET layers == IF cli.cmd = "publish" THEN pubLayers ELSE scanLayers
            tokens == IF Len(cli.args) = 0 THEN <<>> ELSE cli.args[1]
            named == UNION {LayersNamed(tokens[i]) : i \in 1..Len(tokens)}
        IN  IF named = {}
            THEN layers = NullLayers
            ELSE layers # NullLayers /\ Range(layers) = named

\* C15 witness: the scanner was started with " Ui,xx" and filters on UI.
C15_Witness ==
    /\ cli.cmd = "scan" /\ cli.pc = "main"
    /\ cli.args = << <<" Ui", "xx">> >>
    /\ scanLayers = <<"UI">>

\* C16: whichever workers claim, the records claimed so far, in the order of
\* their claims, are the first records of the queue in its order.
C16_ClaimOrderIsQueueOrder ==
    /\ Len(claimLog) <= Len(taskQueue)
    /\ \A k \in 1..Len(claimLog) : claimLog[k].url = taskQueue[k]

\* C16 witness: two records were claimed by workers of two groups, the
\* second claim made while the first record was still being published.
C16_Witness ==
    /\ Len(taskQueue) = 2 /\ Len(claimLog) = 2
    /\ claimLog[1].sub # claimLog[2].sub
    /\ \E w \in Workers : tab[w].task = taskQueue[1] /\ tab[w].pc = "publish"
    /\ \E w \in Workers : tab[w].task = taskQueue[2] /\ tab[w].pc = "goto"

\* one of the three required values is undefined or empty
AnyValueMissing == \E n \in EnvNames : cli.env[n] \in {Undefined, ""}

HelpRequested ==
    \E i \in 1..Len(cli.args) : cli.args[i] \in {<<"-h">>, <<"--help">>}

NoWorkDone ==
    /\ NothingStarted
    /\ mainPc = "start"
    /\ scanPc = "idle"
    /\ fs = fs0

\* C17: a command started with one of the three required values missing has
\* ended by the uncaught startup error, with no browser launched, no login
\* attempted, nothing claimed and no file written.
C17_MissingEnvAbortsBeforeWork ==
    (cli.pc # "start" /\ AnyValueMissing) =>
        /\ cli.pc = "thrown" /\ cli.exitCode = "1"
        /\ NoWorkDone

\* C17 witness: the publisher was started with only WODIFY_ENV empty and
\* has thrown.
C17_Witness ==
    /\ cli.cmd = "publish" /\ cli.pc = "thrown"
    /\ cli.env = [AllSet EXCEPT !["WODIFY_ENV"] = ""]
    /\ cli.args = << <<"OS">> >>

\* C18 as stated: a command started with -h or --help, in whatever
\* environment, has printed the usage text and exited with code 0 without
\* doing any work.
C18_HelpPrintsUsageExitsZero ==
    (cli.pc # "start" /\ HelpRequested) =>
        /\ cli.pc = "exited" /\ cli.usage /\ cli.exitCode = "0"
        /\ NoWorkDone

\* C19 as stated: a worker has left its loop only after a claim returned
\* "no more work", that is with the queue used up; and once every group has
\* ended, one of them with its session established, every record of the
\* queue has been claimed.
C19_WorkerStopsOnlyWhenDrained ==
    /\ \A w \in Workers : tab[w].pc = "done" => taskIndex = Len(taskQueue)
    /\ ((\A g \in Subdomains : thread[g] = "closed") /\
        (\E g \in Subdomains : groupError[g] = "none"))
           => Len(claimLog) = Len(taskQueue)

\* C20 as stated: the pages are handled one after the other, each once: the
\* k-th page handled is page k of the list, whatever the latency of the
\* refresh, and a pass that ends normally has handled every page.
C20_PagesInSequence ==
    /\ \A k \in 1..Len(processed) : processed[k] = k
    /\ (scanPc = "ok" /\ Len(listing) > 0) => Len(processed) = NumPages

\* the tasks the tab is through with, and what it met on the way
Ended == Range(item.ended)

\* C21 as stated: once the Publish button was clicked for a task, a wait
\* that elapses without the progress signal ends the task as a best-effort
\* success: the task is not navigated to again and does not end as failed.
C21_UnconfirmedIsNotRetried ==
    /\ item.clicks > 0 => item.pc \in {"progress", "settle"}
    /\ \A e \in Ended : e.clicks > 0 => e.outcome = "started"

\* C22 as stated: no timeout of a wait made for a task ends the worker (it
\* is a failed attempt that is retried), and a task is skipped only when
\* the status check saw a page without warning, never because the check
\* timed out or raised an error.
C22_TimeoutsFeedRetryPolicy ==
    /\ \A e \in Ended : e.outcome # "aborted"
    /\ \A e \in Ended : e.outcome = "skipped" => e.check = "noLabel"

\* C23: a task whose status check did not report a warning is skipped:
\* processPublishPage is not entered for it and the Publish button is not
\* clicked; both happen only for a task whose check reported the warning.
C23_NoWarningIsSkipped ==
    /\ \A e \in Ended :
          e.check \in {"noLabel", "timeout", "error"} =>
              e.outcome = "skipped" /\ ~e.entered /\ e.clicks = 0
    /\ (item.entered \/ item.clicks > 0 \/
        item.pc \in {"pgoto", "table", "click", "progress", "settle"})
           => item.check = "warning"
    /\ \A e \in Ended : e.outcome = "skipped" => e.check # "warning"

\* C23 witness: the tab skipped a task whose page showed no status label
\* and published another whose check reported the warning.
C23_Witness ==
    /\ \E e \in Ended : e.check = "noLabel" /\ e.outcome = "skipped"
    /\ \E e \in Ended : e.check = "warning" /\ e.outcome = "started"
    /\ item.pc = "closed"

\* C24 as stated: every task a tab is through with ended as skipped, as
\* triggered (the publish was started) or as failed, and a task whose
\* check reported the warning as triggered or failed.
C24_OneOfTheOutcomes ==
    \A e \in Ended :
        /\ e.outcome \in {"skipped", "started", "failed"}
        /\ e.check = "warning" => e.outcome \in {"started", "failed"}
        /\ e.outcome = "started" <=> e.clicks > 0

\* C25: the snapshot is read once, before any thread starts; after that no
\* step changes the queued items, the snapshot files or the number of
\* reads, and the cursor moves only with a successful claim, by one.
C25_ReadOnceOnlyCursorMoves ==
    /\ [](/\ reads <= 1
          /\ mainPc = "start" =>
                reads = 0 /\ \A g \in Subdomains : thread[g] = "idle"
          /\ (\E g \in Subdomains : thread[g] # "idle") => reads = 1)
    /\ [][mainPc # "start" =>
            /\ taskQueue' = taskQueue
            /\ fs' = fs
            /\ reads' = reads
            /\ IF claimLog' # claimLog
               THEN /\ Len(claimLog') = Len(claimLog) + 1
                    /\ taskIndex' = taskIndex + 1
               ELSE taskIndex' = taskIndex]_vars

\* C25 witness: a run that read its file once has handed out both records
\* and answered a further claim with null.
C25_Witness ==
    /\ reads = 1 /\ mainPc = "complete"
    /\ Len(taskQueue) = 2 /\ taskIndex = 2
    /\ \A w \in Workers : tab[w].pc = "done" /\ w \notin aborted

\* C26 as stated: the Publish button is clicked at most once for a task,
\* whatever waits fail after the click and however often it is retried.
C26_PublishClickedAtMostOnce ==
    /\ item.clicks <= 1
    /\ \A e \in Ended : e.clicks <= 1

\* C27 as stated: at most one scanner and at most one publisher started by
\* the scheduler run at a time, and no scanner runs while the publisher of
\* another cycle runs.
C27_CyclesNeverOverlap ==
    /\ Cardinality({c \in 1..Len(cycles) : cycles[c].scanner = "running"}) <= 1
    /\ Cardinality({c \in 1..Len(cycles) : cycles[c].publisher = "running"}) <= 1
    /\ \A c, d \in 1..Len(cycles) :
          c # d => ~(cycles[c].scanner = "running" /\ cycles[d].publisher = "running")

\* C28 as stated: at most one dialog listener is attached to the page of a
\* tab, and none is attached once processPublishPage has returned.
C28_DialogListenerReleased ==
    /\ item.listeners <= 1
    /\ item.pc \in {"claim", "goto", "check", "closed"} => item.listeners = 0
    /\ \A e \in Ended : e.listeners = 0

====
